---- MODULE Spec2Model ----
(***************************************************************************)
(* Retrieval-augmented question answering (DGPERS eAssistant).             *)
(*                                                                         *)
(* The specifications share the variables below:                           *)
(*   Spec        one Lambda process serving requests through               *)
(*               lambda_answer_question -> Chatbot.answer_question ->      *)
(*               retrieve_context -> generate_answer_text; one action per  *)
(*               external call together with the code that follows it up   *)
(*               to the next external call;                                *)
(*   SpecMerge   the merge of retrieve_context (concatenation followed by  *)
(*               __get_distinct_values) applied to arbitrary hit lists;    *)
(*   SpecRerank  ReRanker.rerank_results applied to arbitrary candidate    *)
(*               lists and reranker responses;                             *)
(*   SpecLive    Spec over a one-document index with weak fairness;        *)
(*   SpecSession several invocations served by one process;                *)
(*   SpecConfig  the AskthedocsConfig singleton and its single load;       *)
(*   SpecAliases ClaudeContextFormatter.apply_aliases applied to arbitrary *)
(*               documents and alias lists.                                *)
(*                                                                         *)
(* Texts are sequences of tokens: a question is <<"q1">>, its French       *)
(* translation <<"fr","q1">>, the empty string <<>>.  Relevance scores are *)
(* integers (score units); the factor 0.40 is the exact ratio 40/100.      *)
(***************************************************************************)
EXTENDS Integers, Sequences, FiniteSets, TLC

VARIABLES
    env,               \* the surroundings: size of the index, invocations to come
    singleton,         \* AskthedocsConfig: its instance, its loads, the file
    aliasing,          \* apply_aliases: the document's _source, the aliases
    cfg,               \* the loaded configuration (read by every component)
    response,          \* module-level response template of aws_answer_question.py
    served,            \* number of invocations of lambda_answer_question so far
    pc,                \* position of the request being served
    question,          \* input_params["question"] of the current request
    allowed,           \* answer_question: what is_query_allowed returned
    calls,             \* external calls issued by the current request, in order
    results_knn,       \* retrieve_context: vector hits
    results_bm25,      \* retrieve_context: lexical hits
    translation,       \* retrieve_context: how translate_to_french ended
    translated_query,  \* retrieve_context: translated_query
    query_entities,    \* retrieve_context: query_entities
    distinct_results,  \* retrieve_context: merged, deduplicated hits
    rerank_response,   \* rerank_results: response_body["results"]
    retrieved,         \* value returned by retrieve_context / rerank_results
    prompt,            \* generate_answer_text: values of the answer prompt
    aq,                \* outcome of Chatbot.answer_question
    lam                \* outcome of lambda_answer_question

vars == <<env, singleton, aliasing, cfg, response, served, pc, question, allowed, calls, results_knn, results_bm25,
          translation, translated_query, query_entities, distinct_results, rerank_response,
          retrieved, prompt, aq, lam>>

----------------------------------------------------------------------------
(* Bounds of the model *)

CorpusSize == 2      \* documents held by the index in Spec
MaxRequests == 2     \* invocations served by one process in SpecSession
NumIds == 4          \* identities the hit lists of SpecMerge draw from
MaxHits == 3         \* longest hit list of SpecMerge
MaxCand == 3         \* longest candidate list of SpecRerank
MaxScore == 5        \* relevance scores range over 0..MaxScore
NumFields == 3       \* field names a document's _source draws from (SpecAliases)
MaxAliases == 2      \* longest alias list of SpecAliases
MaxConfigOps == 6    \* constructions and reads of AskthedocsConfig in SpecConfig

(* Program constants *)

TopN == 8            \* "top_n" of the rerank request
ThresholdPct == 40   \* threshold = top_score * 0.40
EpKnnRerank == 20    \* EP retriever: vector k with a reranker
EpKnnPlain == 8      \* EP retriever: vector k without a reranker
EpBm25 == 5          \* EP retriever: lexical size

Min(a, b) == IF a < b THEN a ELSE b

----------------------------------------------------------------------------
(* Documents and hit lists *)

\* A hit: its identity and the rest of the record (score, _source), which
\* differs between the engine that produced it.
Doc(i, o) == [_id |-> i, origin |-> o]

Ids == 1..NumIds

\* All sequences over S of length at most n.
SeqsUpTo(S, n) == UNION {[1..k -> S] : k \in 0..n}

NoDuplicateIds(lst) ==
    \A i, j \in 1..Len(lst) : lst[i]._id = lst[j]._id => i = j

\* What an index service that honours the requested size may answer in Spec:
\* at most `size` hits, each document of the corpus at most once.
SearchHits(o, size) ==
    {h \in SeqsUpTo({Doc(i, o) : i \in 1..env.corpus}, Min(size, env.corpus)) :
        NoDuplicateIds(h)}

\* The hit lists of SpecMerge: any list, duplicates included.
AnyHits(o) == SeqsUpTo({Doc(i, o) : i \in Ids}, MaxHits)

IdsOf(lst) == {lst[i]._id : i \in 1..Len(lst)}

----------------------------------------------------------------------------
(* EpDocumentsRetriever.__get_distinct_values /                            *)
(* KnowledgebaseDocumentsRetriever.__get_distinct_values                   *)

RECURSIVE DistinctLoop(_, _, _)
DistinctLoop(lst, seen, unique) ==
    IF lst = <<>> THEN unique
    ELSE LET d == Head(lst) IN
         IF d._id \notin seen
         THEN DistinctLoop(Tail(lst), seen \cup {d._id}, Append(unique, d))
         ELSE DistinctLoop(Tail(lst), seen, unique)

\* Mutant: nothing is removed.
GetDistinctValuesKeepAll(lst) == lst

GetDistinctValues(lst) == DistinctLoop(lst, {}, <<>>)

\* Mutant: the lexical hits are concatenated first.
MergeResultsLexicalFirst(knn, bm25) == GetDistinctValues(bm25 \o knn)

\* Mutant: the result that came back first (the shorter one) is put first.
MergeResultsArrivalOrder(knn, bm25) ==
    GetDistinctValues(IF Len(bm25) < Len(knn) THEN bm25 \o knn ELSE knn \o bm25)

\* combined_results = results_knn + results_bm25; distinct_results = ...
MergeResults(knn, bm25) == GetDistinctValues(knn \o bm25)

----------------------------------------------------------------------------
(* ReRanker.rerank_results *)

\* Mutant: a score equal to the threshold passes.
AboveThresholdOrEqual(score, top_score) == score * 100 >= top_score * ThresholdPct

\* Mutant: the comparison is turned around.
AboveThresholdInverted(score, top_score) == score * 100 < top_score * ThresholdPct

\* Mutant: the threshold is 0.40 times the highest possible score.
AboveThresholdAbsolute(score, top_score) == score * 100 > MaxScore * ThresholdPct

\* result["relevance_score"] > threshold, threshold = top_score * 0.40
AboveThreshold(score, top_score) == score * 100 > top_score * ThresholdPct

\* Mutant: the model is invoked whatever the candidate list.
ShortCircuitsNever(results) == FALSE

\* "if not results": an empty candidate list returns [] at once
ShortCircuits(results) == results = <<>>

\* Mutant: the matching documents are collected once per response entry pass,
\* so each appears twice.
RerankResultsRepeated(results, resp) ==
    IF results = <<>> THEN <<>>
    ELSE LET top_score == resp[1].relevance_score
             matching == SelectSeq(resp,
                 LAMBDA r : r.relevance_score * 100 > top_score * ThresholdPct)
             twice == matching \o matching
         IN  [k \in 1..Len(twice) |-> results[twice[k].index + 1]]

\* Mutant: the documents above the threshold are returned in the order of
\* the candidate list.
RerankResultsInputOrder(results, resp) ==
    IF results = <<>> THEN <<>>
    ELSE LET top_score == resp[1].relevance_score
         IN  SelectSeq(results,
                 LAMBDA d : \E k \in 1..Len(resp) :
                     /\ results[resp[k].index + 1] = d
                     /\ resp[k].relevance_score * 100 > top_score * ThresholdPct)

\* matching_indices and reranked_results, for a non-empty candidate list
RerankResults(results, resp) ==
    IF results = <<>> THEN <<>>
    ELSE LET top_score == resp[1].relevance_score
             matching == SelectSeq(resp,
                 LAMBDA r : AboveThreshold(r.relevance_score, top_score))
         IN  [k \in 1..Len(matching) |-> results[matching[k].index + 1]]

\* The answers of the reranking model for n documents: the top min(top_n, n)
\* documents, each input position (0-based) at most once, by descending score.
RankOrders(m, n) ==
    {f \in [1..m -> 0..(n - 1)] : \A i, j \in 1..m : f[i] = f[j] => i = j}

SortedScores(m) ==
    {s \in [1..m -> 0..MaxScore] : \A i \in 1..m : i < m => s[i] >= s[i + 1]}

RerankResponses(n) ==
    LET m == Min(TopN, n) IN
    {[k \in 1..m |-> [index |-> f[k], relevance_score |-> s[k]]] :
        f \in RankOrders(m, n), s \in SortedScores(m)}

----------------------------------------------------------------------------
(* Values shared by the specifications *)

NoText == <<>>

\* One external call: the capability, the text it was given, how it ended.
Call(op, arg, out) == [op |-> op, arg |-> arg, out |-> out]
NoPrompt == [context |-> <<>>, query |-> NoText]
NoOutcome == [kind |-> "none", answer |-> "none", documents |-> <<>>, exc |-> "none"]
NoLambda == [status |-> "none", exc |-> "none"]
NoTranslation == [outcome |-> "none", kind |-> "none", value |-> "none", exc |-> "none"]
Msg(kind, q) == [kind |-> kind, question |-> q]
NoMsg == Msg("none", NoText)
EmptyBody == [type |-> "dict", msg |-> NoMsg, llm_answer |-> "none"]

\* The "request" entries of prompt_templates as loaded: the content of the
\* user message of each request body has not been filled in.
LoadedSlot == [rendered |-> FALSE, values |-> NoText]
LoadedRequestBodies ==
    [translate |-> LoadedSlot, analyze_query |-> LoadedSlot,
     get_query_intent |-> LoadedSlot,
     answer_question |-> [rendered |-> FALSE, values |-> NoPrompt]]

\* BedrockHelper.build_request_body: request_body is the "request" entry of
\* the configuration itself, not a copy, and the prompt is stored into it.
BuildRequestBody(c, template, values) ==
    [c EXCEPT !.request[template] = [rendered |-> TRUE, values |-> values]]

\* ClaudeContextFormatter.apply_aliases.  A _source is a function from the
\* field names it holds to their values; a field of the stored document holds
\* the value that carries its own name.
Fields == 1..NumFields

Sources == UNION {[d -> Fields] : d \in SUBSET Fields}

StoredSources == {s \in Sources : \A f \in DOMAIN s : s[f] = f}

AliasLists == SeqsUpTo([name : Fields, alias : Fields], MaxAliases)

NoAliasing == [before |-> <<>>, aliases |-> <<>>, source |-> <<>>, outcome |-> "none"]

\* source[key] = value
SetField(source, key, value) ==
    [f \in (DOMAIN source) \cup {key} |-> IF f = key THEN value ELSE source[f]]

\* del source[key]
DelField(source, key) == [f \in (DOMAIN source) \ {key} |-> source[f]]

\* The loop of the try block, from alias k on: the _source it leaves and
\* whether source[alias["name"]] raised KeyError.
RECURSIVE AliasLoop(_, _, _)
AliasLoop(source, aliases, k) ==
    IF k > Len(aliases) THEN [raised |-> FALSE, source |-> source]
    ELSE IF aliases[k].name \notin DOMAIN source
         THEN [raised |-> TRUE, source |-> source]
         ELSE AliasLoop(DelField(SetField(source, aliases[k].alias,
                                          source[aliases[k].name]),
                                 aliases[k].name),
                        aliases, k + 1)

\* document["_source"] after apply_aliases: the renamed _source, or the copy
\* taken before the loop when a KeyError was caught.
ApplyAliases(original_source, aliases) ==
    LET loop == AliasLoop(original_source, aliases, 1)
    IN  IF loop.raised THEN original_source ELSE loop.source

\* AskthedocsConfig (askthedocs_config.py): the singleton metaclass and the
\* single load of the configuration file.

\* The process before askthedocs_config.py is imported: _instances is empty.
NoSingleton(file) ==
    [instance |-> 0, created |-> 0, loads |-> 0, object |-> 0,
     content |-> "unloaded", file |-> file]

\* _load_configuration: the parsed file, or {} on any exception.
LoadConfiguration(file) == IF file = "readable" THEN "from_file" ELSE "empty"

NeedsInstanceOrReload(s) == s.instance = 0 \/ s.content = "empty"

\* AskthedocsConfigMeta.__call__: `cls not in cls._instances`.
NeedsInstance(s) == s.instance = 0

\* AskthedocsConfig(): the metaclass creates and initialises an instance only
\* when none is registered; __init__ loads the file into a new dict object.
ConstructSingleton(s) ==
    IF NeedsInstance(s)
    THEN [s EXCEPT !.instance = s.created + 1, !.created = s.created + 1,
                   !.loads = s.loads + 1, !.object = s.loads + 1,
                   !.content = LoadConfiguration(s.file)]
    ELSE s

\* AskthedocsConfig after the import of askthedocs_config.py: the module-level
\* AskthedocsConfig() has created the instance and loaded the file.
ImportedSingleton ==
    [instance |-> 1, created |-> 1, loads |-> 1, object |-> 1,
     content |-> "from_file", file |-> "readable"]

IdleConfig == [guardrail_id |-> "not_found", rerank_model_id |-> "none",
               retriever |-> "ep", request |-> LoadedRequestBodies]

\* Everything but the hit lists, for the specifications of the pure functions.
KernelRest(p) ==
    /\ env = [corpus |-> 0, requests |-> 0]
    /\ singleton = ImportedSingleton
    /\ aliasing = NoAliasing
    /\ cfg = IdleConfig
    /\ response = [statusCode |-> 200, body |-> EmptyBody]
    /\ served = 0
    /\ pc = p
    /\ question = NoText
    /\ allowed = "unchecked"
    /\ calls = <<>>
    /\ translation = NoTranslation
    /\ translated_query = NoText
    /\ query_entities = NoText
    /\ rerank_response = <<>>
    /\ retrieved = <<>>
    /\ prompt = NoPrompt
    /\ aq = NoOutcome
    /\ lam = NoLambda

----------------------------------------------------------------------------
(* SpecMerge: the merge step of retrieve_context on arbitrary hit lists *)

InitMerge ==
    /\ KernelRest("merge")
    /\ results_knn \in AnyHits("knn")
    /\ results_bm25 \in AnyHits("bm25")
    /\ distinct_results = <<>>

Merge ==
    /\ pc = "merge"
    /\ distinct_results' = MergeResults(results_knn, results_bm25)
    /\ pc' = "merged"
    /\ UNCHANGED <<env, aliasing, singleton, translation, cfg, allowed, response, served, question, calls, results_knn,
                   results_bm25, translated_query, query_entities,
                   rerank_response, retrieved, prompt, aq, lam>>

NextMerge == Merge

SpecMerge == InitMerge /\ [][NextMerge]_vars

----------------------------------------------------------------------------
(* SpecRerank: rerank_results on arbitrary candidates and model responses *)

Candidates ==
    {c \in SeqsUpTo({Doc(i, "knn") : i \in 1..MaxCand}, MaxCand) : NoDuplicateIds(c)}

InitRerank ==
    /\ KernelRest("rerank")
    /\ results_knn = <<>>
    /\ results_bm25 = <<>>
    /\ distinct_results \in Candidates

\* An empty candidate list returns [] before the model is invoked.
RerankEmpty ==
    /\ pc = "rerank"
    /\ ShortCircuits(distinct_results)
    /\ retrieved' = RerankResults(distinct_results, <<>>)
    /\ pc' = "reranked"
    /\ UNCHANGED <<env, aliasing, singleton, translation, cfg, allowed, response, served, question, calls, results_knn,
                   results_bm25, translated_query, query_entities,
                   distinct_results, rerank_response, prompt, aq, lam>>

RerankInvoke ==
    /\ pc = "rerank"
    /\ ~ShortCircuits(distinct_results)
    /\ \E resp \in RerankResponses(Len(distinct_results)) :
          /\ rerank_response' = resp
          /\ retrieved' = RerankResults(distinct_results, resp)
    /\ calls' = Append(calls, Call("rerank", translated_query, "ok"))
    /\ pc' = "reranked"
    /\ UNCHANGED <<env, aliasing, singleton, translation, cfg, allowed, response, served, question, results_knn, results_bm25,
                   translated_query, query_entities, distinct_results, prompt, aq,
                   lam>>

NextRerank == RerankEmpty \/ RerankInvoke

SpecRerank == InitRerank /\ [][NextRerank]_vars

----------------------------------------------------------------------------
(* SpecConfig: one process constructing AskthedocsConfig and reading the   *)
(* configuration, while the file at CONFIG_PATH comes and goes             *)

InitConfig ==
    /\ env = [corpus |-> 0, requests |-> 0]
    /\ singleton \in {NoSingleton(f) : f \in {"readable", "unreadable"}}
    /\ aliasing = NoAliasing
    /\ cfg = IdleConfig
    /\ response = [statusCode |-> 200, body |-> EmptyBody]
    /\ served = 0
    /\ pc = "config"
    /\ question = NoText
    /\ allowed = "unchecked"
    /\ calls = <<>>
    /\ results_knn = <<>>
    /\ results_bm25 = <<>>
    /\ translation = NoTranslation
    /\ translated_query = NoText
    /\ query_entities = NoText
    /\ distinct_results = <<>>
    /\ rerank_response = <<>>
    /\ retrieved = <<>>
    /\ prompt = NoPrompt
    /\ aq = NoOutcome
    /\ lam = NoLambda

\* AskthedocsConfig() (the module-level call of line 57 is the first one).
ConstructConfig ==
    /\ pc = "config"
    /\ Len(calls) < MaxConfigOps
    /\ singleton' = ConstructSingleton(singleton)
    /\ calls' = Append(calls, Call("construct", NoText,
                    [object |-> singleton'.instance, content |-> singleton'.content]))
    /\ UNCHANGED <<env, aliasing, cfg, response, served, pc, question, allowed,
                   results_knn, results_bm25, translation, translated_query,
                   query_entities, distinct_results, rerank_response,
                   retrieved, prompt, aq, lam>>

\* askthedocs_config.get_configuration()
GetConfiguration ==
    /\ pc = "config"
    /\ Len(calls) < MaxConfigOps
    /\ singleton.instance # 0
    /\ calls' = Append(calls, Call("get_configuration", NoText,
                    [object |-> singleton.object, content |-> singleton.content]))
    /\ UNCHANGED <<env, aliasing, singleton, cfg, response, served, pc, question, allowed,
                   results_knn, results_bm25, translation, translated_query,
                   query_entities, distinct_results, rerank_response,
                   retrieved, prompt, aq, lam>>

\* The file at CONFIG_PATH becomes readable or unreadable.
ConfigFileChanges ==
    /\ pc = "config"
    /\ singleton' = [singleton EXCEPT !.file =
                        IF @ = "readable" THEN "unreadable" ELSE "readable"]
    /\ UNCHANGED <<env, aliasing, cfg, response, served, pc, question, allowed, calls,
                   results_knn, results_bm25, translation, translated_query,
                   query_entities, distinct_results, rerank_response,
                   retrieved, prompt, aq, lam>>

NextConfig == ConstructConfig \/ GetConfiguration \/ ConfigFileChanges

SpecConfig == InitConfig /\ [][NextConfig]_vars

----------------------------------------------------------------------------
(* SpecAliases: apply_aliases on arbitrary stored documents and alias lists *)

InitAliases ==
    /\ env = [corpus |-> 0, requests |-> 0]
    /\ singleton = ImportedSingleton
    /\ aliasing \in {[before |-> s, aliases |-> a, source |-> s, outcome |-> "none"] :
                        s \in StoredSources, a \in AliasLists}
    /\ cfg = IdleConfig
    /\ response = [statusCode |-> 200, body |-> EmptyBody]
    /\ served = 0
    /\ pc = "aliases"
    /\ question = NoText
    /\ allowed = "unchecked"
    /\ calls = <<>>
    /\ results_knn = <<>>
    /\ results_bm25 = <<>>
    /\ translation = NoTranslation
    /\ translated_query = NoText
    /\ query_entities = NoText
    /\ distinct_results = <<>>
    /\ rerank_response = <<>>
    /\ retrieved = <<>>
    /\ prompt = NoPrompt
    /\ aq = NoOutcome
    /\ lam = NoLambda

\* updated_document = cls.apply_aliases(document, aliases)
ApplyAliasesCall ==
    /\ pc = "aliases"
    /\ aliasing' = [aliasing EXCEPT
                       !.source = ApplyAliases(aliasing.source, aliasing.aliases),
                       !.outcome = "returned"]
    /\ pc' = "aliased"
    /\ UNCHANGED <<env, singleton, cfg, response, served, question, allowed, calls,
                   results_knn, results_bm25, translation, translated_query,
                   query_entities, distinct_results, rerank_response,
                   retrieved, prompt, aq, lam>>

NextAliases == ApplyAliasesCall

SpecAliases == InitAliases /\ [][NextAliases]_vars

----------------------------------------------------------------------------
(* Spec: the request path *)

Questions == {<<"q1">>, <<"q2">>}
Missing == <<"missing">>          \* a query-string parameter that is absent
Refusal == "Cannot answer to this question."
AnswerTexts == {"a1"}             \* texts the answer LLM may generate
EmptyAnswer == "{}"               \* the empty answer object

\* queryStringParameters of the event
Events ==
    [question : Questions \cup {Missing}, instructions : {"", "upload", "missing"}]

KbResultCounts == {1, 2}          \* local.knowledgebase_number_of_results

Configs ==
    [guardrail_id : {"not_found", "gr1"}, rerank_model_id : {"none", "rr1"},
     retriever : {"ep"}, request : {LoadedRequestBodies}]
    \cup
    [guardrail_id : {"not_found", "gr1"}, rerank_model_id : {"none", "rr1"},
     retriever : {"kb"}, kb_results : KbResultCounts,
     request : {LoadedRequestBodies}]

\* Python's round() of n * 2.5: ties go to the even neighbour.
RoundTwoAndHalf(n) ==
    LET q == (5 * n) \div 2 IN
    IF (5 * n) % 2 = 0 THEN q ELSE IF q % 2 = 0 THEN q ELSE q + 1

\* Sizes the searches ask for.
VectorK(c) ==
    IF c.retriever = "ep"
    THEN (IF c.rerank_model_id # "none" THEN EpKnnRerank ELSE EpKnnPlain)
    ELSE (IF c.rerank_model_id # "none" THEN RoundTwoAndHalf(c.kb_results)
          ELSE c.kb_results)

\* Mutant: the knowledge-base retriever asks for the EP retriever's size.
LexicalSizeFixed(c) == EpBm25

LexicalSize(c) == IF c.retriever = "ep" THEN EpBm25 ELSE c.kb_results

\* Mutant: the list is handed on in the retriever's order.
ReverseKeepsOrder(lst) == lst

\* retrieved_documents[::-1]
Reverse(lst) == [k \in 1..Len(lst) |-> lst[Len(lst) + 1 - k]]

\* format_context: one <document> block per document, in list order,
\* numbered from 1, holding the excerpt of that document.
FormatContext(documents) ==
    [k \in 1..Len(documents) |->
        [document_id |-> k, document_excerpt |-> documents[k]._id]]

InitRequestPath(corpus, requests) ==
    /\ env = [corpus |-> corpus, requests |-> requests]
    /\ singleton = ImportedSingleton
    /\ aliasing = NoAliasing
    /\ cfg \in Configs
    /\ response = [statusCode |-> 200, body |-> EmptyBody]
    /\ served = 0
    /\ pc = "idle"
    /\ question = NoText
    /\ allowed = "unchecked"
    /\ calls = <<>>
    /\ results_knn = <<>>
    /\ results_bm25 = <<>>
    /\ translation = NoTranslation
    /\ translated_query = NoText
    /\ query_entities = NoText
    /\ distinct_results = <<>>
    /\ rerank_response = <<>>
    /\ retrieved = <<>>
    /\ prompt = NoPrompt
    /\ aq = NoOutcome
    /\ lam = NoLambda

\* response["body"]["msg"] = ...: an item assignment on the body, which is a
\* dict until a json.dumps string has replaced it.
SetBodyMsg(resp, m) ==
    IF resp.body.type = "dict"
    THEN [response |-> [resp EXCEPT !.body.msg = m],
          lam |-> [status |-> "returned", exc |-> "none"]]
    ELSE [response |-> resp, lam |-> [status |-> "fault", exc |-> "TypeError"]]

\* The except clause around Chatbot(...) and answer_question: ClientError only.
OnException(resp, exc, q) ==
    IF exc = "ClientError"
    THEN SetBodyMsg(resp, Msg("client_error", q))
    ELSE [response |-> resp, lam |-> [status |-> "fault", exc |-> exc]]

\* An exception leaves answer_question and ends the invocation.
Raise(exc) ==
    /\ aq' = [kind |-> "raised", answer |-> "none", documents |-> <<>>, exc |-> exc]
    /\ LET r == OnException(response, exc, question) IN
          /\ response' = r.response
          /\ lam' = r.lam
    /\ pc' = "idle"
    /\ served' = served + 1

\* lambda_answer_question up to the call of answer_question
Receive ==
    /\ pc = "idle"
    /\ served < env.requests
    /\ \E ev \in Events :
          /\ allowed' = "unchecked"
          /\ calls' = <<>>
          /\ results_knn' = <<>>
          /\ results_bm25' = <<>>
          /\ translation' = NoTranslation
          /\ translated_query' = NoText
          /\ query_entities' = NoText
          /\ distinct_results' = <<>>
          /\ rerank_response' = <<>>
          /\ retrieved' = <<>>
          /\ prompt' = NoPrompt
          /\ aq' = NoOutcome
          /\ IF ev.question = Missing \/ ev.instructions = "missing"
             THEN LET r == SetBodyMsg(response, Msg("wrong_input_param", NoText)) IN
                  /\ response' = r.response
                  /\ lam' = r.lam
                  /\ question' = NoText
                  /\ pc' = "idle"
                  /\ served' = served + 1
             ELSE IF ev.instructions = "upload"
             THEN /\ response' = [statusCode |-> 200,
                                  body |-> [type |-> "str", msg |-> Msg("uploaded", NoText),
                                            llm_answer |-> "none"]]
                  /\ lam' = [status |-> "returned", exc |-> "none"]
                  /\ question' = ev.question
                  /\ pc' = "idle"
                  /\ served' = served + 1
             ELSE /\ question' = ev.question
                  /\ lam' = NoLambda
                  /\ pc' = "guardrail"
                  /\ UNCHANGED <<response, served>>
    /\ UNCHANGED <<env, aliasing, singleton, cfg>>

\* Mutant: answer_question goes to generate_answer_text without retrieving.
RetrieveEntrySkipsRetrieval(c) == "intent"

\* First step of retrieve_context for the configured retriever.
RetrieveEntry(c) == IF c.retriever = "ep" THEN "embed" ELSE "translate"

\* The replies of the moderation call: the guardrail action field of the
\* response body (or its absence), or the exception the call raises.
GuardrailOutcomes == {"INTERVENED", "NONE", "absent", "ClientError", "ParamValidationError"}

\* Mutant: the moderation call is made whatever the configuration.
GuardrailConfiguredAlways(c) == TRUE

\* QueryAnalyzer.is_query_allowed: guardrail_id == "not_found" returns True
\* before any call.
GuardrailConfigured(c) == c.guardrail_id # "not_found"

\* Mutant: a failed moderation call is answered as "not allowed".
IsQueryAllowedFailClosed(out) ==
    [kind |-> "return", exc |-> "none",
     value |-> (out \notin {"INTERVENED", "ClientError", "ParamValidationError"})]

\* Mutant: only an explicit "NONE" lets the query through.
IsQueryAllowedOnlyNone(out) ==
    IF out \in {"ClientError", "ParamValidationError"}
    THEN [kind |-> "raise", exc |-> out, value |-> FALSE]
    ELSE [kind |-> "return", exc |-> "none", value |-> (out = "NONE")]

\* QueryAnalyzer.is_query_allowed once the moderation call has ended: the
\* exception passes through, otherwise action != "INTERVENED".
IsQueryAllowed(out) ==
    IF out \in {"ClientError", "ParamValidationError"}
    THEN [kind |-> "raise", exc |-> out, value |-> FALSE]
    ELSE [kind |-> "return", exc |-> "none", value |-> (out # "INTERVENED")]

\* Mutant: retrieval is entered whatever is_query_allowed returned.
AfterGuardrailAlwaysRetrieve(c, ok) == RetrieveEntry(c)

\* The if/else of answer_question on the value of is_query_allowed.
AfterGuardrail(c, ok) == IF ok THEN RetrieveEntry(c) ELSE "finish"

\* do_not_nswer(question), []
RefusalOutcome ==
    [kind |-> "returned", answer |-> Refusal, documents |-> <<>>, exc |-> "none"]

GuardrailSkip ==
    /\ pc = "guardrail"
    /\ ~GuardrailConfigured(cfg)
    /\ allowed' = "yes"
    /\ pc' = AfterGuardrail(cfg, TRUE)
    /\ UNCHANGED <<env, aliasing, singleton, translation, cfg, response, served, question, calls, results_knn,
                   results_bm25, translated_query, query_entities,
                   distinct_results, rerank_response, retrieved, prompt, aq, lam>>

GuardrailCheck ==
    /\ pc = "guardrail"
    /\ GuardrailConfigured(cfg)
    /\ \E out \in GuardrailOutcomes :
          LET r == IsQueryAllowed(out) IN
          /\ calls' = Append(calls, Call("guardrail", question, out))
          /\ IF r.kind = "raise"
             THEN /\ allowed' = allowed
                  /\ Raise(r.exc)
             ELSE /\ allowed' = IF r.value THEN "yes" ELSE "no"
                  /\ pc' = AfterGuardrail(cfg, r.value)
                  /\ aq' = IF pc' = "finish" THEN RefusalOutcome ELSE aq
                  /\ UNCHANGED <<response, served, lam>>
    /\ UNCHANGED <<env, aliasing, singleton, translation, cfg, question, results_knn, results_bm25, translated_query,
                   query_entities, distinct_results, rerank_response, retrieved,
                   prompt>>

----------------------------------------------------------------------------
(* retrieve_context of EpDocumentsRetriever and                            *)
(* KnowledgebaseDocumentsRetriever.  A local of retrieve_context stays in  *)
(* the state through the step of its last use and is dropped by the step   *)
(* after it.  A failure that the code catches and ignores is logged in     *)
(* calls as "failed".                                                      *)

\* Step 1 (EP): Text2VectorProcessor.get_embeddings(query)
Embed ==
    /\ pc = "embed"
    /\ \E out \in {"ok", "ClientError", "ParamValidationError"} :
          /\ calls' = Append(calls, Call("embed", question, out))
          /\ IF out = "ok"
             THEN /\ pc' = "knn"
                  /\ UNCHANGED <<response, served, aq, lam>>
             ELSE Raise(IF out = "ParamValidationError" THEN "ValueError" ELSE out)
    /\ UNCHANGED <<env, aliasing, singleton, translation, cfg, allowed, question, results_knn, results_bm25, translated_query,
                   query_entities, distinct_results, rerank_response, retrieved,
                   prompt>>

\* What the search client may raise, as perform_vector_search and
\* perform_bm25_search let it out: ClientError re-raised, ParamValidationError
\* turned into ValueError, anything else untouched.
SearchErrors == {"ClientError", "ValueError", "TransportError"}

\* Step 3 (EP): perform_vector_search over the embedding of the question
VectorSearch ==
    /\ pc = "knn"
    /\ \/ \E hits \in SearchHits("knn", VectorK(cfg)) :
             /\ calls' = Append(calls, Call("knn", question, "ok"))
             /\ results_knn' = hits
             /\ pc' = "translate"
             /\ UNCHANGED <<response, served, aq, lam>>
       \/ \E exc \in SearchErrors :
             /\ calls' = Append(calls, Call("knn", question, exc))
             /\ results_knn' = results_knn
             /\ Raise(exc)
    /\ UNCHANGED <<env, aliasing, singleton, translation, cfg, allowed, question, results_bm25, translated_query, query_entities,
                   distinct_results, rerank_response, retrieved, prompt>>

\* Translator.translate as seen by retrieve_context's try block: the reply
\* carries a text, carries a content block without text, carries no content
\* block (IndexError), or translate returned None (ClientError) or raised.
TranslateOutcomes ==
    {"text", "no_text", "empty_content", "ClientError", "ParamValidationError",
     "ModelError", "EndpointConnectionError"}

\* Translator.translate around its one invoke_model call: the reply is
\* returned, a ClientError gives None, a ParamValidationError a ValueError,
\* and every other error leaves the method as it is.
TranslatorTranslate(out) ==
    CASE out \in {"text", "no_text", "empty_content"} ->
            [outcome |-> out, kind |-> "return", value |-> "response", exc |-> "none"]
      [] out = "ClientError" ->
            [outcome |-> out, kind |-> "return", value |-> "None", exc |-> "none"]
      [] out = "ParamValidationError" ->
            [outcome |-> out, kind |-> "raise", value |-> "none", exc |-> "ValueError"]
      [] out = "ModelError" ->
            [outcome |-> out, kind |-> "raise", value |-> "none", exc |-> "BedrockHelperError"]
      [] OTHER ->
            [outcome |-> out, kind |-> "raise", value |-> "none", exc |-> out]

TranslationFailed(out) == out \notin {"text", "no_text"}

\* translation_result.get("content", [{}])[0].get("text", query), with the
\* except clause leaving translated_query = query
TranslatedQuery(query, out) == IF out = "text" THEN <<"fr">> \o query ELSE query

\* Mutant: a failed translation is attempted again.
AfterTranslateRetries(c, failed) ==
    IF failed THEN "translate"
    ELSE IF c.retriever = "ep" THEN "analyze" ELSE "kb_knn"

\* Mutant: after a failed translation the retriever waits for a translation
\* that nothing delivers.
AfterTranslateWaits(c, failed) ==
    IF failed THEN "await_translation"
    ELSE IF c.retriever = "ep" THEN "analyze" ELSE "kb_knn"

\* What follows the translation: preprocess_query for the EP retriever; for
\* the knowledge-base retriever the rest of the try block (perform_knn_search)
\* unless the except clause was entered.
AfterTranslate(c, failed) ==
    IF c.retriever = "ep" THEN "analyze"
    ELSE IF failed THEN "analyze" ELSE "kb_knn"

\* Step 4 (EP); first step of the knowledge-base retriever's try block
Translate ==
    /\ pc = "translate"
    /\ \E out \in TranslateOutcomes :
          /\ calls' = Append(calls, Call("translate", question,
                                         IF TranslationFailed(out) THEN "failed" ELSE "ok"))
          /\ translation' = TranslatorTranslate(out)
          /\ translated_query' = TranslatedQuery(question, out)
          /\ pc' = AfterTranslate(cfg, TranslationFailed(out))
    /\ cfg' = BuildRequestBody(cfg, "translate", question)
    /\ UNCHANGED <<env, aliasing, singleton, allowed, response, served, question, results_knn, results_bm25,
                   query_entities, distinct_results, rerank_response, retrieved,
                   prompt, aq, lam>>

\* Knowledge-base retriever: perform_knn_search inside the same try block;
\* whatever it raises is caught and results_knn stays [].
KbKnnSearch ==
    /\ pc = "kb_knn"
    /\ \/ \E hits \in SearchHits("knn", VectorK(cfg)) :
             /\ calls' = Append(calls, Call("knn", translated_query, "ok"))
             /\ results_knn' = hits
       \/ \E exc \in SearchErrors :
             /\ calls' = Append(calls, Call("knn", translated_query, "failed"))
             /\ results_knn' = <<>>
    /\ pc' = "analyze"
    /\ translation' = NoTranslation
    /\ UNCHANGED <<env, aliasing, singleton, cfg, allowed, response, served, question, results_bm25,
                   translated_query, query_entities, distinct_results,
                   rerank_response, retrieved, prompt, aq, lam>>

\* preprocess_query -> QueryAnalyzer.analyze_query
AnalyzeOutcomes ==
    {"terms", "no_terms", "bad_json", "ClientError", "ParamValidationError",
     "ModelError"}

\* ", ".join(search_elements) for a QueryElements, the query itself for None
PreprocessQuery(query, out) ==
    CASE out = "terms" -> <<"kw">> \o query
      [] out = "no_terms" -> <<>>
      [] OTHER -> query

Analyze ==
    /\ pc = "analyze"
    /\ \E out \in AnalyzeOutcomes :
          IF out \in {"terms", "no_terms", "bad_json"}
          THEN /\ calls' = Append(calls, Call("analyze", translated_query, "ok"))
               /\ query_entities' = PreprocessQuery(translated_query, out)
               /\ pc' = "bm25"
               /\ UNCHANGED <<response, served, aq, lam>>
          ELSE /\ calls' = Append(calls, Call("analyze", translated_query, out))
               /\ query_entities' = query_entities
               /\ Raise(IF out = "ModelError" THEN "BedrockHelperError" ELSE out)
    /\ cfg' = BuildRequestBody(cfg, "analyze_query", translated_query)
    /\ translation' = NoTranslation
    /\ UNCHANGED <<env, aliasing, singleton, allowed, question, results_knn, results_bm25, translated_query,
                   distinct_results, rerank_response, retrieved, prompt>>

\* perform_bm25_search, then the merge, then the return when no reranking
\* call follows (no model configured, or nothing to rerank)
Bm25Search ==
    /\ pc = "bm25"
    /\ \/ \E hits \in SearchHits("bm25", LexicalSize(cfg)) :
             LET merged == MergeResults(results_knn, hits) IN
             /\ calls' = Append(calls, Call("bm25", query_entities, "ok"))
             /\ results_bm25' = hits
             /\ distinct_results' = merged
             /\ IF cfg.rerank_model_id # "none" /\ ~ShortCircuits(merged)
                THEN /\ pc' = "rerank"
                     /\ retrieved' = retrieved
                ELSE /\ pc' = "intent"
                     /\ retrieved' = IF cfg.rerank_model_id # "none"
                                     THEN RerankResults(merged, <<>>)
                                     ELSE merged
             /\ UNCHANGED <<response, served, aq, lam>>
       \/ \E exc \in SearchErrors :
             /\ calls' = Append(calls, Call("bm25", query_entities, exc))
             /\ UNCHANGED <<results_bm25, distinct_results, retrieved>>
             /\ Raise(exc)
    /\ UNCHANGED <<env, aliasing, singleton, translation, cfg, allowed, question, results_knn, translated_query, query_entities,
                   rerank_response, prompt>>

\* distinct_results = re_ranker.rerank_results(...) on a non-empty merged
\* list, and the return of retrieve_context; the response body is a local of
\* rerank_results, which has returned.
Rerank ==
    /\ pc = "rerank"
    /\ \/ \E resp \in RerankResponses(Len(distinct_results)) :
             /\ calls' = Append(calls, Call("rerank", translated_query, "ok"))
             /\ distinct_results' = RerankResults(distinct_results, resp)
             /\ retrieved' = distinct_results'
             /\ pc' = "intent"
             /\ UNCHANGED <<response, served, aq, lam>>
       \/ \E exc \in {"ClientError", "ParamValidationError"} :
             /\ calls' = Append(calls, Call("rerank", translated_query, exc))
             /\ UNCHANGED <<distinct_results, retrieved>>
             /\ Raise(exc)
    /\ results_knn' = <<>>
    /\ results_bm25' = <<>>
    /\ query_entities' = NoText
    /\ UNCHANGED <<env, aliasing, singleton, translation, cfg, allowed, question, translated_query, rerank_response, prompt>>

----------------------------------------------------------------------------
(* Chatbot.generate_answer_text, called by answer_question with the        *)
(* retrieved documents reversed                                            *)

\* QueryAnalyzer.get_query_intent: a QueryIntent with the reformulated query,
\* one with "undefined" (no content block, or no such key), or None.
IntentOutcomes ==
    {"intent", "undefined", "bad_json", "ClientError", "ParamValidationError",
     "ModelError"}

\* query_analysis_elements.reformulated_query; reading it from None raises
ReformulatedQuery(query, out) ==
    IF out = "intent" THEN <<"rq">> \o query ELSE <<"undefined">>

\* format_context, get_query_intent and build_request_body("answer_question")
Intent ==
    /\ pc = "intent"
    /\ \E out \in IntentOutcomes :
          CASE out \in {"intent", "undefined"} ->
                  /\ calls' = Append(calls, Call("intent", question, "ok"))
                  /\ prompt' = [context |-> FormatContext(Reverse(retrieved)),
                                query |-> ReformulatedQuery(question, out)]
                  /\ cfg' = BuildRequestBody(
                                BuildRequestBody(cfg, "get_query_intent", question),
                                "answer_question", prompt')
                  /\ pc' = "answer"
                  /\ UNCHANGED <<response, served, aq, lam>>
            [] out = "bad_json" ->
                  /\ calls' = Append(calls, Call("intent", question, "unparsable"))
                  /\ prompt' = prompt
                  /\ cfg' = BuildRequestBody(cfg, "get_query_intent", question)
                  /\ Raise("AttributeError")
            [] OTHER ->
                  /\ calls' = Append(calls, Call("intent", question, out))
                  /\ prompt' = prompt
                  /\ cfg' = BuildRequestBody(cfg, "get_query_intent", question)
                  /\ Raise(IF out = "ModelError" THEN "BedrockHelperError" ELSE out)
    /\ results_knn' = <<>>
    /\ results_bm25' = <<>>
    /\ translated_query' = NoText
    /\ query_entities' = NoText
    /\ distinct_results' = <<>>
    /\ rerank_response' = <<>>
    /\ UNCHANGED <<env, aliasing, singleton, translation, allowed, question, retrieved>>

\* bedrock_client.invoke_model(request_body) and its except clauses
AnswerOutcomes == {"ok", "ClientError", "ParamValidationError", "ModelError"}

\* Mutant: a client error is raised to the caller like any other error.
AnswerHandlerRaisesClientError(out) ==
    CASE out = "ok" -> [kind |-> "return", empty |-> FALSE, exc |-> "none"]
      [] out = "ParamValidationError" ->
            [kind |-> "raise", empty |-> FALSE, exc |-> "ValueError"]
      [] out = "ClientError" -> [kind |-> "raise", empty |-> FALSE, exc |-> "ClientError"]
      [] OTHER -> [kind |-> "raise", empty |-> FALSE, exc |-> "BedrockHelperError"]

\* The try/except of generate_answer_text: ParamValidationError becomes a
\* ValueError, ClientError becomes "return {}", the error invoke_model raises
\* for an error field in the reply passes through.
AnswerHandler(out) ==
    CASE out = "ok" -> [kind |-> "return", empty |-> FALSE, exc |-> "none"]
      [] out = "ParamValidationError" ->
            [kind |-> "raise", empty |-> FALSE, exc |-> "ValueError"]
      [] out = "ClientError" -> [kind |-> "return", empty |-> TRUE, exc |-> "none"]
      [] OTHER -> [kind |-> "raise", empty |-> FALSE, exc |-> "BedrockHelperError"]

Answer ==
    /\ pc = "answer"
    /\ \E out \in AnswerOutcomes, text \in AnswerTexts :
          LET h == AnswerHandler(out) IN
          /\ calls' = Append(calls, Call("answer", prompt.query, out))
          /\ IF h.kind = "return"
             THEN /\ aq' = [kind |-> "returned",
                            answer |-> IF h.empty THEN EmptyAnswer ELSE text,
                            documents |-> Reverse(retrieved), exc |-> "none"]
                  /\ pc' = "finish"
                  /\ UNCHANGED <<response, served, lam>>
             ELSE Raise(h.exc)
    /\ UNCHANGED <<env, aliasing, singleton, translation, cfg, allowed, question, results_knn, results_bm25, translated_query,
                   query_entities, distinct_results, rerank_response, retrieved,
                   prompt>>

----------------------------------------------------------------------------
(* lambda_answer_question after answer_question has returned *)

\* response["body"] = json.dumps({"llm_answer": answer["content"][0]["text"], ...})
Package(resp, outcome) ==
    IF outcome.answer = EmptyAnswer
    THEN [response |-> resp, lam |-> [status |-> "fault", exc |-> "KeyError"]]
    ELSE [response |-> [statusCode |-> 200,
                        body |-> [type |-> "str", msg |-> Msg("completed", NoText),
                                  llm_answer |-> outcome.answer]],
          lam |-> [status |-> "returned", exc |-> "none"]]

\* documents_list_formatter.format() (one metadata query when there are
\* documents, its failure logged and ignored), then the response
Finish ==
    /\ pc = "finish"
    /\ IF aq.documents = <<>>
       THEN calls' = calls
       ELSE \E out \in {"ok", "error"} :
               calls' = Append(calls, Call("enrich", NoText, out))
    /\ LET r == Package(response, aq) IN
          /\ response' = r.response
          /\ lam' = r.lam
    /\ pc' = "idle"
    /\ served' = served + 1
    /\ UNCHANGED <<env, aliasing, singleton, translation, cfg, allowed, question, results_knn, results_bm25, translated_query,
                   query_entities, distinct_results, rerank_response, retrieved,
                   prompt, aq>>

Next ==
    \/ Receive
    \/ GuardrailSkip
    \/ GuardrailCheck
    \/ Embed
    \/ VectorSearch
    \/ Translate
    \/ KbKnnSearch
    \/ Analyze
    \/ Bm25Search
    \/ Rerank
    \/ Intent
    \/ Answer
    \/ Finish

\* One invocation over an index of CorpusSize documents.
Init == InitRequestPath(CorpusSize, 1)

Spec == Init /\ [][Next]_vars

\* One invocation over a one-document index, when every external call that
\* was issued comes back with a response or an error, so that the step
\* waiting for it is taken.
InitLive == InitRequestPath(1, 1)

SpecLive == InitLive /\ [][Next]_vars /\ WF_vars(Next)

\* A process serving MaxRequests invocations in a row over a one-document index.
InitSession == InitRequestPath(1, MaxRequests)

SpecSession == InitSession /\ [][Next]_vars

----------------------------------------------------------------------------
(* Properties *)

OpsCalled == {calls[i].op : i \in 1..Len(calls)}

\* C2: after the merge, every identity occurring in the vector hits or in the
\* lexical hits occurs in the merged list exactly once, and the merged list
\* holds no other identity.
C2_MergeHoldsEachIdentityOnce ==
    pc = "merged" =>
        /\ IdsOf(distinct_results) = IdsOf(results_knn) \cup IdsOf(results_bm25)
        /\ \A i \in IdsOf(results_knn) \cup IdsOf(results_bm25) :
              Cardinality({k \in 1..Len(distinct_results) :
                              distinct_results[k]._id = i}) = 1

C2_Witness ==
    /\ pc = "merged"
    /\ IdsOf(results_knn) \cap IdsOf(results_bm25) # {}
    /\ ~NoDuplicateIds(results_knn)
    /\ Len(distinct_results) = 3

\* C3: the merged list is the concatenation vector-hits-then-lexical-hits with
\* every non-first occurrence of an identity removed: the survivors keep their
\* relative order, and an identity returned by both searches is represented by
\* its vector hit.
C3_MergeKeepsFirstOccurrencesInOrder ==
    pc = "merged" =>
        LET c == results_knn \o results_bm25
            first == {p \in 1..Len(c) : \A q \in 1..(p - 1) : c[q]._id # c[p]._id}
            nth(k) == CHOOSE p \in first : Cardinality({q \in first : q < p}) = k - 1
        IN  /\ Len(distinct_results) = Cardinality(first)
            /\ \A k \in 1..Len(distinct_results) : distinct_results[k] = c[nth(k)]
            /\ \A k \in 1..Len(distinct_results) :
                  distinct_results[k]._id \in IdsOf(results_knn)
                      => distinct_results[k].origin = "knn"

\* vector (A,B,C) and lexical (C,D) merge to (A,B,C,D), C being the vector hit
C3_Witness ==
    /\ pc = "merged"
    /\ results_knn = <<Doc(1, "knn"), Doc(2, "knn"), Doc(3, "knn")>>
    /\ results_bm25 = <<Doc(3, "bm25"), Doc(4, "bm25")>>
    /\ distinct_results = <<Doc(1, "knn"), Doc(2, "knn"), Doc(3, "knn"), Doc(4, "bm25")>>

\* C4: rerank_results keeps a candidate if and only if the reranking model
\* scored it and its score is strictly greater than 0.40 times the top score;
\* a score equal to 0.40 times the top score is excluded.
C4_KeptIffStrictlyAboveFortyPercentOfTop ==
    (pc = "reranked" /\ distinct_results # <<>>) =>
        LET scores == {rerank_response[k].relevance_score : k \in 1..Len(rerank_response)}
            top == CHOOSE t \in scores : \A u \in scores : u <= t
        IN  \A i \in 1..Len(distinct_results) :
               (\E k \in 1..Len(retrieved) : retrieved[k] = distinct_results[i])
               <=>
               (\E k \in 1..Len(rerank_response) :
                   /\ rerank_response[k].index = i - 1
                   /\ rerank_response[k].relevance_score * 5 > top * 2)

\* top score 5, threshold 2: the document scored 3 is kept, the one scored 2
\* (exactly the threshold) is dropped
C4_Witness ==
    /\ pc = "reranked"
    /\ Len(distinct_results) = 3
    /\ [k \in 1..3 |-> rerank_response[k].relevance_score] = <<5, 3, 2>>
    /\ Len(retrieved) = 2
    /\ retrieved[2] = distinct_results[rerank_response[2].index + 1]

C1_RefusalSkipsRetrievalAndAnswer ==
    allowed = "no" =>
        /\ OpsCalled = {"guardrail"}
        /\ Len(calls) = 1
        /\ pc \in {"finish", "idle"}
        /\ aq.kind = "returned"
        /\ aq.answer = Refusal
        /\ aq.documents = <<>>

C1_Witness ==
    /\ allowed = "no"
    /\ pc = "idle"
    /\ question = <<"q2">>
    /\ lam.status = "returned"
    /\ response.body.llm_answer = Refusal

\* C9: when the moderation call raises, answer_question raises the same
\* error: it returns neither the refusal nor an answer, and no retrieval or
\* generation call is made.
C9_GuardrailFailurePropagates ==
    (/\ calls # <<>>
     /\ calls[1].op = "guardrail"
     /\ calls[1].out \in {"ClientError", "ParamValidationError"}) =>
        /\ Len(calls) = 1
        /\ allowed = "unchecked"
        /\ aq.kind = "raised"
        /\ aq.exc = calls[1].out
        /\ aq.answer = "none"
        /\ aq.documents = <<>>

C9_Witness ==
    /\ calls # <<>>
    /\ calls[1].op = "guardrail"
    /\ calls[1].out = "ParamValidationError"
    /\ aq.kind = "raised"
    /\ aq.exc = "ParamValidationError"
    /\ lam.status = "fault"

\* C10: when the configuration names no guardrail, is_query_allowed makes no
\* moderation call and answers "allowed", so the request goes on to retrieval.
C10_NoGuardrailMeansAllowedWithoutCall ==
    cfg.guardrail_id = "not_found" =>
        /\ "guardrail" \notin OpsCalled
        /\ allowed # "no"
        /\ aq.answer # Refusal
        /\ calls # <<>> => allowed = "yes"

C10_Witness ==
    /\ cfg.guardrail_id = "not_found"
    /\ allowed = "yes"
    /\ "embed" \in OpsCalled
    /\ "guardrail" \notin OpsCalled
    /\ lam.status = "returned"

\* C6: when the translation of the query fails, retrieve_context has made a
\* vector search and a lexical search by the time it returns, the lexical
\* search runs on the original query, and without reranking the value
\* returned is the merge of the two hit lists.
C6_TranslationFailureKeepsBothSearches ==
    (/\ pc = "intent"
     /\ \E i \in 1..Len(calls) : calls[i].op = "translate" /\ calls[i].out = "failed") =>
        /\ \E i \in 1..Len(calls) : calls[i].op = "knn"
        /\ \E i \in 1..Len(calls) :
              /\ calls[i].op = "bm25"
              /\ calls[i].arg \in {question, <<"kw">> \o question, NoText}
        /\ cfg.rerank_model_id = "none" =>
              retrieved = MergeResults(results_knn, results_bm25)

\* C7: when get_query_intent returns null, generate_answer_text does not
\* raise: it goes on to the answer model.
C7_NullIntentFallsBackToQuestion ==
    (\E i \in 1..Len(calls) : calls[i].op = "intent" /\ calls[i].out = "unparsable") =>
        /\ aq.kind # "raised"
        /\ pc \in {"answer", "finish", "idle"}
        /\ pc # "answer" => "answer" \in OpsCalled

\* C8: no invocation of the lambda handler ends with an exception escaping
\* the handler, and an invocation whose processing raised answers with the
\* error message and the original question.
C8_EveryInvocationReturnsAResponse ==
    /\ lam.status # "fault"
    /\ aq.kind = "raised" => response.body.msg = Msg("client_error", question)

\* C11: with a guardrail configured and the moderation call returning,
\* is_query_allowed answers "not allowed" if and only if the guardrail action
\* field of the response is "INTERVENED"; any other value of the field, and
\* a response without the field, answer "allowed".
C11_DisallowedIffIntervened ==
    (/\ calls # <<>>
     /\ calls[1].op = "guardrail"
     /\ calls[1].out \notin {"ClientError", "ParamValidationError"}) =>
        /\ allowed \in {"yes", "no"}
        /\ allowed = "no" <=> calls[1].out = "INTERVENED"

\* the response carries no guardrail action field and retrieval has started
C11_Witness ==
    /\ cfg.guardrail_id # "not_found"
    /\ calls # <<>>
    /\ calls[1].op = "guardrail"
    /\ calls[1].out = "absent"
    /\ allowed = "yes"
    /\ Len(calls) > 1

\* The step of the orchestrator an external call belongs to: 1 guardrail
\* check, 2 retrieval, 3 context formatting and intent analysis, 4 answer
\* LLM, 5 packaging of the result.
StageOf(op) ==
    CASE op = "guardrail" -> 1
      [] op \in {"embed", "knn", "translate", "analyze", "bm25", "rerank"} -> 2
      [] op = "intent" -> 3
      [] op = "answer" -> 4
      [] OTHER -> 5

\* C12: within a request the steps occur in the order guardrail check,
\* retrieval, context formatting, answer LLM, packaging: a retrieval call is
\* made only once the guardrail has allowed the query, the prompt is built
\* only after the lexical search (the last search of retrieval) has
\* returned, the answer LLM is invoked only after that, and a request that
\* answer_question completes without raising ends either refused, straight
\* from the guardrail check, or done with an answer and the documents.
C12_StepsInOrder ==
    /\ \A i, j \in 1..Len(calls) :
          i < j => StageOf(calls[i].op) <= StageOf(calls[j].op)
    /\ (\E i \in 1..Len(calls) : StageOf(calls[i].op) = 2) => allowed = "yes"
    /\ \A j \in 1..Len(calls) :
          calls[j].op = "intent" =>
              \E i \in 1..(j - 1) : calls[i].op = "bm25" /\ calls[i].out = "ok"
    /\ \A j \in 1..Len(calls) :
          calls[j].op = "answer" =>
              \E i \in 1..(j - 1) : calls[i].op = "intent" /\ calls[i].out = "ok"
    /\ aq.kind = "returned" =>
          \/ /\ aq.answer = Refusal
             /\ aq.documents = <<>>
             /\ allowed = "no"
             /\ OpsCalled \subseteq {"guardrail"}
          \/ /\ aq.answer # Refusal
             /\ allowed = "yes"
             /\ "answer" \in OpsCalled
             /\ aq.documents = Reverse(retrieved)

\* a request that went through all five steps
C12_Witness ==
    /\ pc = "idle"
    /\ lam.status = "returned"
    /\ aq.answer \in AnswerTexts
    /\ aq.documents # <<>>
    /\ {"guardrail", "bm25", "intent", "answer", "enrich"} \subseteq OpsCalled

\* C13: the list handed to the context formatter is the reverse of the list
\* retrieve_context returned, so block k of the context holds the document
\* ranked Len + 1 - k and the top-ranked document is in the last block; the
\* document list returned with the answer is the same reversed list.
C13_ReversedOnceBeforeFormatting ==
    LET n == Len(retrieved) IN
    /\ (\E i \in 1..Len(calls) : calls[i].op = "intent" /\ calls[i].out = "ok") =>
          /\ Len(prompt.context) = n
          /\ \A k \in 1..n :
                /\ prompt.context[k].document_id = k
                /\ prompt.context[k].document_excerpt = retrieved[n + 1 - k]._id
          /\ n > 0 => prompt.context[n].document_excerpt = retrieved[1]._id
    /\ (aq.kind = "returned" /\ allowed = "yes") =>
          /\ Len(aq.documents) = n
          /\ \A k \in 1..n : aq.documents[k] = retrieved[n + 1 - k]
          /\ \A k \in 1..n : prompt.context[k].document_excerpt = aq.documents[k]._id

\* two documents retrieved: the top-ranked one is in block 2 and second in
\* the returned list
C13_Witness ==
    /\ aq.kind = "returned"
    /\ allowed = "yes"
    /\ Len(retrieved) = 2
    /\ prompt.context[2].document_excerpt = retrieved[1]._id
    /\ aq.documents[2] = retrieved[1]
    /\ aq.documents[1] = retrieved[2]

\* C14: in generate_answer_text a client error of the answer LLM invocation
\* ends in a returned empty answer object, no exception leaving the method,
\* and a parameter-validation error is raised to the caller as a ValueError.
C14_AnswerErrorKinds ==
    \A i \in 1..Len(calls) :
        calls[i].op = "answer" =>
            /\ calls[i].out = "ClientError" =>
                  /\ aq.kind = "returned"
                  /\ aq.answer = EmptyAnswer
                  /\ aq.exc = "none"
            /\ calls[i].out = "ParamValidationError" =>
                  /\ aq.kind = "raised"
                  /\ aq.exc = "ValueError"
                  /\ aq.answer = "none"

\* generate_answer_text has just returned {} after a client error
C14_Witness ==
    /\ pc = "finish"
    /\ calls[Len(calls)].op = "answer"
    /\ calls[Len(calls)].out = "ClientError"
    /\ aq.kind = "returned"
    /\ aq.answer = EmptyAnswer

\* C15: within one request every external capability is called at most once,
\* so no call is retried; and after a call whose failure is not absorbed by
\* its caller no further call is made.
C15_NoCallIssuedTwice ==
    /\ \A i, j \in 1..Len(calls) : calls[i].op = calls[j].op => i = j
    /\ \A i \in 1..Len(calls) :
          calls[i].out \notin {"ok", "failed", "error", "NONE", "absent", "INTERVENED"} =>
              \/ i = Len(calls)
              \/ calls[i].op = "answer" /\ calls[i].out = "ClientError"

\* a request whose translation failed and which went on to its answer
C15_Witness ==
    /\ pc = "idle"
    /\ lam.status = "returned"
    /\ \E i \in 1..Len(calls) : calls[i].op = "translate" /\ calls[i].out = "failed"
    /\ {"knn", "translate", "analyze", "bm25", "rerank", "intent", "answer"}
          \subseteq OpsCalled

\* C16: the configuration is read-only after its load: at every point of
\* every request the request bodies it holds are the ones that were loaded.
C16_ConfigurationIsReadOnly ==
    cfg.request = LoadedRequestBodies

\* C17: the response to a request does not depend on the requests the
\* process served before it: a request rejected for a missing parameter, and
\* one that failed with a client error, end with a returned response whose
\* body carries the message of that request.
C17_ResponseIndependentOfEarlierRequests ==
    (pc = "idle" /\ served > 0) =>
        /\ (question = NoText /\ aq = NoOutcome) =>
              /\ lam.status = "returned"
              /\ response.body.type = "dict"
              /\ response.body.msg = Msg("wrong_input_param", NoText)
        /\ (aq.kind = "raised" /\ aq.exc = "ClientError") =>
              /\ lam.status = "returned"
              /\ response.body.type = "dict"
              /\ response.body.msg = Msg("client_error", question)

\* C18: rerank_results called with an empty candidate list returns an empty
\* list and makes no call to the reranking model.
C18_EmptyCandidatesShortCircuit ==
    (pc = "reranked" /\ distinct_results = <<>>) =>
        /\ retrieved = <<>>
        /\ "rerank" \notin OpsCalled
        /\ rerank_response = <<>>

C18_Witness ==
    /\ pc = "reranked"
    /\ distinct_results = <<>>
    /\ retrieved = <<>>
    /\ calls = <<>>

\* C19: with an index service that returns no more hits than it is asked
\* for, the vector hits number at most k_vector, the lexical hits at most
\* k_lexical, and the merged list and the list retrieve_context returns at
\* most k_vector + k_lexical, with and without reranking; k_vector is 20 or
\* 8 (EP retriever, with or without reranker) or round(2.5 n) or n
\* (knowledge-base retriever), k_lexical is 5 or n.
C19_RetrievalWithinCaps ==
    LET reranking == cfg.rerank_model_id # "none"
        k_vector == IF cfg.retriever = "ep"
                    THEN (IF reranking THEN EpKnnRerank ELSE EpKnnPlain)
                    ELSE (IF reranking THEN RoundTwoAndHalf(cfg.kb_results)
                          ELSE cfg.kb_results)
        k_lexical == IF cfg.retriever = "ep" THEN EpBm25 ELSE cfg.kb_results
    IN  /\ Len(results_knn) <= k_vector
        /\ Len(results_bm25) <= k_lexical
        /\ Len(distinct_results) <= k_vector + k_lexical
        /\ Len(retrieved) <= k_vector + k_lexical
        /\ Len(aq.documents) <= k_vector + k_lexical

\* knowledge-base retriever with n = 1 and no reranker: both searches return
\* as much as they may and retrieve_context returns 1 + 1 documents
C19_Witness ==
    /\ cfg.retriever = "kb"
    /\ cfg.kb_results = 1
    /\ cfg.rerank_model_id = "none"
    /\ pc = "intent"
    /\ Len(results_knn) = 1
    /\ Len(results_bm25) = 1
    /\ Len(retrieved) = 2

\* C20: every request terminates: once a request has entered
\* answer_question, and provided every external call it issues returns, it
\* reaches the end of the invocation with answer_question having returned
\* (an answer or the refusal) or raised.
C20_EveryRequestTerminates ==
    (pc # "idle") ~> (pc = "idle" /\ aq.kind \in {"returned", "raised"})

\* a request that went through every step of the EP retriever with reranking
\* and ended with the error of the answer model
C20_Witness ==
    /\ pc = "idle"
    /\ served = env.requests
    /\ aq.kind = "raised"
    /\ aq.exc = "BedrockHelperError"
    /\ Len(calls) = 9

\* C21: an error raised by the vector search or by the lexical search leaves
\* retrieve_context as it is: the request ends there with answer_question
\* raising that error, and no hit list is substituted for it.
C21_SearchErrorsPropagate ==
    \A i \in 1..Len(calls) :
        (calls[i].op \in {"knn", "bm25"} /\ calls[i].out # "ok") =>
            /\ i = Len(calls)
            /\ aq.kind = "raised"
            /\ aq.exc = calls[i].out

WithTopScore(resp, t) == [resp EXCEPT ![1].relevance_score = t]

\* Input positions of the documents other than the top one that
\* rerank_results keeps for the candidates of this state under resp.
KeptNonTop(resp) ==
    {resp[k].index : k \in {j \in 2..Len(resp) :
        \E m \in 1..Len(RerankResults(distinct_results, resp)) :
            RerankResults(distinct_results, resp)[m] = distinct_results[resp[j].index + 1]}}

\* C23: for the candidates and the response of a rerank_results call, with
\* the scores of the documents other than the top one held fixed, a higher
\* top score t gives the cutoff 0.40 t, and the documents other than the top
\* one kept under the higher top score are among those kept under the lower.
C23_ThresholdMonotonicity ==
    (pc = "reranked" /\ distinct_results # <<>>) =>
        \A t, u \in rerank_response[1].relevance_score..MaxScore :
            t <= u =>
                /\ KeptNonTop(WithTopScore(rerank_response, u))
                      \subseteq KeptNonTop(WithTopScore(rerank_response, t))
                /\ KeptNonTop(WithTopScore(rerank_response, u)) =
                      {rerank_response[k].index : k \in {j \in 2..Len(rerank_response) :
                          rerank_response[j].relevance_score * 5 > u * 2}}

\* top score 2: the document scored 1 is kept; top score 5: it is dropped
C23_Witness ==
    /\ pc = "reranked"
    /\ Len(distinct_results) = 2
    /\ rerank_response[1].relevance_score = 2
    /\ rerank_response[2].relevance_score = 1
    /\ Len(retrieved) = 2
    /\ KeptNonTop(rerank_response) = {rerank_response[2].index}
    /\ KeptNonTop(WithTopScore(rerank_response, 5)) = {}

\* C24: Translator.translate returns null and raises nothing when its LLM
\* invocation fails with a client error or a transport error, returns the
\* reply of the LLM when the invocation succeeds, and has invoked the LLM
\* exactly once in both cases.
C24_TranslateNullOnClientOrTransportError ==
    translation.outcome # "none" =>
        /\ translation.outcome \in {"ClientError", "EndpointConnectionError"} =>
              /\ translation.kind = "return"
              /\ translation.value = "None"
        /\ translation.outcome \in {"text", "no_text", "empty_content"} =>
              /\ translation.kind = "return"
              /\ translation.value = "response"
        /\ Cardinality({i \in 1..Len(calls) : calls[i].op = "translate"}) = 1

\* C25: the configuration is loaded at most once per process.  Every
\* construction of AskthedocsConfig returns the same instance, every
\* get_configuration returns the same configuration object with the same
\* content, the file is loaded once, and a configuration that came out empty
\* because the first load failed stays empty.
C25_ConfigurationLoadedOnce ==
    /\ singleton.loads <= 1
    /\ singleton.created <= 1
    /\ \A i, j \in 1..Len(calls) :
          (calls[i].op \in {"construct", "get_configuration"}
             /\ calls[j].op = calls[i].op) => calls[j].out = calls[i].out
    /\ (\E i \in 1..Len(calls) :
           calls[i].op \in {"construct", "get_configuration"}
             /\ calls[i].out.content = "empty")
          => singleton.content = "empty"

\* The first load failed, the file became readable, and a later construction
\* and a later read still gave the empty configuration.
C25_Witness ==
    /\ Len(calls) >= 3
    /\ calls[1].op = "construct"
    /\ calls[1].out.content = "empty"
    /\ singleton.file = "readable"
    /\ calls[Len(calls)].op = "get_configuration"
    /\ calls[Len(calls) - 1].op = "construct"
    /\ calls[Len(calls)].out.content = "empty"

\* C26: in every request the enrichment of the retrieved documents precedes
\* context formatting and answer generation: no call of the intent step
\* (which formats the context first) or of the answer model is issued before
\* the enrichment call of the same request.
C26_EnrichmentBeforeFormatting ==
    \A i, j \in 1..Len(calls) :
        (calls[i].op = "enrich" /\ calls[j].op \in {"intent", "answer"}) => i < j

\* C27: preprocess_query gives back the query it was handed whenever the
\* analysis yields no usable search terms, so the lexical search of a
\* non-empty query is never issued with an empty text.
C27_LexicalQueryNeverEmpty ==
    /\ (pc = "bm25" /\ translated_query # NoText) => query_entities # NoText
    /\ \A i \in 1..Len(calls) :
          (calls[i].op = "bm25" /\ translated_query # NoText)
             => calls[i].arg # NoText

C29_NonEmptyIffTopScorePositive ==
    (pc = "reranked" /\ distinct_results # <<>>) =>
        LET top_score == rerank_response[1].relevance_score
            top_doc == distinct_results[rerank_response[1].index + 1]
        IN  /\ (retrieved # <<>>) <=> (top_score > 0)
            /\ retrieved # <<>> => \E k \in 1..Len(retrieved) : retrieved[k] = top_doc
            /\ top_score = 0 => retrieved = <<>>

\* three candidates all scored zero: nothing is returned
C29_Witness ==
    /\ pc = "reranked"
    /\ Len(distinct_results) = 3
    /\ Len(rerank_response) = 3
    /\ rerank_response[1].relevance_score = 0
    /\ retrieved = <<>>

\* C30: apply_aliases is all-or-nothing per document.  If the source field of
\* every alias is present in the document, each is renamed to its alias (the
\* alias field holds the value the source field held); if the source field
\* of any alias is missing, the _source after the call equals the _source
\* before it; and the method returns.
C30_ApplyAliasesAllOrNothing ==
    pc = "aliased" =>
        LET before == aliasing.before
            after == aliasing.source
            al == aliasing.aliases
        IN  /\ aliasing.outcome = "returned"
            /\ IF \A k \in 1..Len(al) : al[k].name \in DOMAIN before
               THEN \A k \in 1..Len(al) :
                        /\ al[k].alias \in DOMAIN after
                        /\ after[al[k].alias] = before[al[k].name]
               ELSE after = before

====
